---------------------------- MODULE Spec2Model ----------------------------
(***************************************************************************)
(* Model of the grammar playground core (src/src/lib.rs and                *)
(* src/src/serializer.rs): the process-wide VM slot with compile_grammar   *)
(* and parse_input, the tree renderer format_pair, the position mapper     *)
(* line_col and the two error encodings.                                   *)
(*                                                                         *)
(* Text is a sequence of characters; a character is a one-character string *)
(* ("CR" and "LF" stand for '\r' and '\n', "U2" for a character whose      *)
(* UTF-8 encoding has two bytes).  A rendered string is a sequence of      *)
(* pieces, each piece the text one format argument contributes.            *)
(***************************************************************************)
EXTENDS Integers, Sequences, FiniteSets, TLC

VARIABLES VM, latest, last, lc, rn

vars == <<VM, latest, last, lc, rn>>

(***************************************************************************)
(* Bounds of the model.                                                    *)
(***************************************************************************)
\* longest source text, in characters, handed to line_col
MaxLen == 4

(***************************************************************************)
(* Characters and byte offsets.                                            *)
(***************************************************************************)
Chars == {"a", "CR", "LF", "U2"}

\* char::len_utf8
len_utf8(c) == IF c = "U2" THEN 2 ELSE 1

RECURSIVE ByteLen(_)
\* str::len: the length of a text in bytes
ByteLen(s) == IF s = <<>> THEN 0 ELSE len_utf8(Head(s)) + ByteLen(Tail(s))

\* the texts of at most n characters over the alphabet cs
TextsUpTo(cs, n) == UNION {[1..k -> cs] : k \in 0..n}

\* the number of characters of s that end at or before byte offset pos
CharsBefore(s, pos) ==
  Cardinality({k \in 1..Len(s) : ByteLen(SubSeq(s, 1, k)) <= pos})

\* str::is_char_boundary
is_char_boundary(s, pos) ==
  \E k \in 0..Len(s) : ByteLen(SubSeq(s, 1, k)) = pos

(***************************************************************************)
(* line_col: the scan loop.  A frame holds the locals of one call.         *)
(***************************************************************************)
NoFrame == [pc |-> "idle"]

\* the frame on entry of line_col(pos, input)
LcEnter(pos, input) ==
  [pc |-> "call", input |-> input, arg |-> pos, slice |-> <<>>, pos |-> pos,
   idx |-> 0, line |-> 1, col |-> 1, pos1 |-> FALSE, wrapped |-> FALSE,
   ret |-> <<>>]

\* let slice = &input[..pos]; let mut chars = ...; let mut line_col = (1, 1)
LcSlice(f) ==
  IF f.arg <= ByteLen(f.input) /\ is_char_boundary(f.input, f.arg)
  THEN [f EXCEPT !.pc = "loop",
                 !.slice = SubSeq(f.input, 1, CharsBefore(f.input, f.arg))]
  ELSE [f EXCEPT !.pc = "slice_panic"]

\* pos -= n on a usize.  Below zero a release build wraps around (a debug
\* build panics at the subtraction): a negative pos stands for the usize
\* pos + 2^32, which this keeps exact, and wrapped records the underflow.
SubUsize(f, n) ==
  [f EXCEPT !.pos = f.pos - n, !.wrapped = f.wrapped \/ (f.pos < n)]

\* One iteration of `while pos != 0 { match chars.next() { ... } }`, arm by arm.

\* faulty variant: the '\r' of a pair breaks the line and leaves the '\n' unread
ScanCrLfTwice(f) ==
  SubUsize([f EXCEPT !.idx = f.idx + 1, !.line = f.line + 1, !.col = 1], 1)

\* a '\r' with '\n' behind it in the slice: both consumed, one line break
ScanCrLf(f) ==
  LET g == [f EXCEPT !.idx = f.idx + 2, !.line = f.line + 1, !.col = 1]
  IN  IF f.pos = 1 THEN [SubUsize(g, 1) EXCEPT !.pos1 = TRUE]
      ELSE SubUsize(g, 2)

\* a '\r' with no '\n' behind it in the slice: one more column
ScanCr(f) ==
  SubUsize([f EXCEPT !.idx = f.idx + 1, !.col = f.col + 1], 1)

\* '\n': one line break
ScanLf(f) ==
  SubUsize([f EXCEPT !.idx = f.idx + 1, !.line = f.line + 1, !.col = 1], 1)

\* faulty variant: every character counted as one byte
ScanCharOneByte(f) ==
  SubUsize([f EXCEPT !.idx = f.idx + 1, !.col = f.col + 1], 1)

\* any other character c: one more column, c.len_utf8() bytes
ScanChar(f) ==
  SubUsize([f EXCEPT !.idx = f.idx + 1, !.col = f.col + 1],
           len_utf8(f.slice[f.idx + 1]))

\* the match on chars.next(); chars.peek() is the next character of the slice
ScanStep(f) ==
  IF f.idx >= Len(f.slice) THEN [f EXCEPT !.pc = "unreachable"]
  ELSE LET c == f.slice[f.idx + 1] IN
    CASE c = "CR" ->
           IF f.idx + 2 <= Len(f.slice) /\ f.slice[f.idx + 2] = "LF"
           THEN ScanCrLf(f)
           ELSE ScanCr(f)
      [] c = "LF" -> ScanLf(f)
      [] OTHER -> ScanChar(f)

\* format!("({}, {})", line - 1, col - 1)
LcFormat(line, col) == <<"(", line - 1, ", ", col - 1, ")">>

LcExit(f) == [f EXCEPT !.pc = "done", !.ret = LcFormat(f.line, f.col)]

RECURSIVE LcRun(_)
\* the call run to its end
LcRun(f) ==
  CASE f.pc = "call" -> LcRun(LcSlice(f))
    [] f.pc = "loop" /\ f.pos # 0 -> LcRun(ScanStep(f))
    [] f.pc = "loop" /\ f.pos = 0 -> LcExit(f)
    [] OTHER -> f

\* line_col(pos, input): the returned string, or "panic"
line_col(pos, input) ==
  LET f == LcRun(LcEnter(pos, input))
  IN  IF f.pc = "done" THEN f.ret ELSE "panic"

(***************************************************************************)
(* Specification of line_col alone, one loop iteration per step.           *)
(***************************************************************************)
Sources == TextsUpTo(Chars, MaxLen)

InitLineCol ==
  /\ VM = [some |-> FALSE]
  /\ latest = [some |-> FALSE, earlier |-> {}, failed |-> FALSE]
  /\ last = [op |-> "none"]
  /\ rn = NoFrame
  /\ \E input \in Sources : \E pos \in 0..(ByteLen(input) + 1) :
       lc = LcEnter(pos, input)

LcCall ==
  /\ lc.pc = "call"
  /\ lc' = LcSlice(lc)
  /\ UNCHANGED <<VM, latest, last, rn>>

LcStep ==
  /\ lc.pc = "loop" /\ lc.pos # 0
  /\ lc' = ScanStep(lc)
  /\ UNCHANGED <<VM, latest, last, rn>>

LcReturn ==
  /\ lc.pc = "loop" /\ lc.pos = 0
  /\ lc' = LcExit(lc)
  /\ UNCHANGED <<VM, latest, last, rn>>

NextLineCol == LcCall \/ LcStep \/ LcReturn

SpecLineCol == InitLineCol /\ [][NextLineCol]_vars

(***************************************************************************)
(* format_pair: the tree renderer.  A pair is a record of its rule name,   *)
(* its node tag ("None" when it has none), the text of its span and the    *)
(* sequence of its inner pairs.                                            *)
(***************************************************************************)
\* most nodes in the pairs one parse returns
MaxNodes == 5

RECURSIVE Concat(_)
\* the concatenation of a sequence of sequences
Concat(ss) == IF ss = <<>> THEN <<>> ELSE Head(ss) \o Concat(Tail(ss))

RECURSIVE Join(_, _)
\* [String]::join
Join(ss, sep) ==
  IF ss = <<>> THEN <<>>
  ELSE IF Len(ss) = 1 THEN ss[1]
  ELSE ss[1] \o <<sep>> \o Join(Tail(ss), sep)

RECURSIVE Repeat(_, _)
\* str::repeat
Repeat(piece, n) == IF n = 0 THEN <<>> ELSE <<piece>> \o Repeat(piece, n - 1)

\* char::escape_debug, as the Debug formatting of a str applies it
EscapeDebug(c) ==
  CASE c = "LF" -> <<"\\", "n">>
    [] c = "CR" -> <<"\\", "r">>
    [] c = "\"" -> <<"\\", "\"">>
    [] c = "\\" -> <<"\\", "\\">>
    [] OTHER -> <<c>>

\* {:?} of a str: quoted, each character escaped
DebugStr(text) ==
  <<"\"">> \o Concat([k \in 1..Len(text) |-> EscapeDebug(text[k])]) \o <<"\"">>

\* faulty variant: the children always rendered one level deeper
ChildIndentAlways(len, indent_level) == indent_level + 1

\* if len > 1 { indent_level + 1 } else { indent_level }
ChildIndent(len, indent_level) ==
  IF len > 1 THEN indent_level + 1 ELSE indent_level

\* match pair.as_node_tag() { Some(tag) => format!("(#{}) ", tag), None => "" }
PairTag(pair) ==
  IF pair.tag = "None" THEN <<>> ELSE <<"(#", pair.tag, ") ">>

RECURSIVE format_pair(_, _, _)
format_pair(pair, indent_level, is_newline) ==
  LET indent == IF is_newline THEN Repeat("  ", indent_level) ELSE <<>>
      len == Len(pair.children)
      children == [k \in 1..len |->
                     format_pair(pair.children[k],
                                 ChildIndent(len, indent_level), len > 1)]
      dash == IF is_newline THEN <<"- ">> ELSE <<>>
      start == indent \o dash \o PairTag(pair) \o <<pair.rule>>
  IN  CASE len = 0 -> start \o <<": ">> \o DebugStr(pair.text)
        [] len = 1 -> start \o <<" > ">> \o children[1]
        [] OTHER -> start \o <<"LF">> \o Join(children, "LF")

(***************************************************************************)
(* The pairs a parse can return: ordered trees of at most MaxNodes nodes.  *)
(***************************************************************************)
Leaves ==
  {[rule |-> "a", tag |-> "None", text |-> <<"x">>, children |-> <<>>],
   [rule |-> "b", tag |-> "t", text |-> <<"LF", "\"">>, children |-> <<>>]}

\* a pair with inner pairs spans their texts
Inner(cs) ==
  [rule |-> "r", tag |-> "None",
   text |-> Concat([k \in 1..Len(cs) |-> cs[k].text]), children |-> cs]

RECURSIVE TreesOfSize(_), ForestsOfSize(_)
TreesOfSize(n) ==
  IF n = 1 THEN Leaves
  ELSE {Inner(cs) : cs \in ForestsOfSize(n - 1) \ {<<>>}}

ForestsOfSize(n) ==
  IF n = 0 THEN {<<>>}
  ELSE UNION {{<<t>> \o rest : t \in TreesOfSize(k),
                               rest \in ForestsOfSize(n - k)} : k \in 1..n}

PairSeqs == UNION {ForestsOfSize(n) : n \in 0..MaxNodes}

(***************************************************************************)
(* Specification of the rendering of parse_input's Ok arm:                 *)
(* pairs.map(|pair| format_pair(pair, 0, true)).collect(), then            *)
(* lines.join("\n").                                                       *)
(***************************************************************************)
InitRender ==
  /\ VM = [some |-> FALSE]
  /\ latest = [some |-> FALSE, earlier |-> {}, failed |-> FALSE]
  /\ last = [op |-> "none"]
  /\ lc = NoFrame
  /\ \E pairs \in PairSeqs :
       rn = [pc |-> "map", pairs |-> pairs, lines |-> <<>>, out |-> <<>>]

\* the map closure applied to the next pair
RenderMap ==
  /\ rn.pc = "map" /\ Len(rn.lines) < Len(rn.pairs)
  /\ rn' = [rn EXCEPT !.lines =
              Append(rn.lines, format_pair(rn.pairs[Len(rn.lines) + 1], 0, TRUE))]
  /\ UNCHANGED <<VM, latest, last, lc>>

RenderJoin ==
  /\ rn.pc = "map" /\ Len(rn.lines) = Len(rn.pairs)
  /\ rn' = [rn EXCEPT !.pc = "done", !.out = Join(rn.lines, "LF")]
  /\ UNCHANGED <<VM, latest, last, lc>>

NextRender == RenderMap \/ RenderJoin

SpecRender == InitRender /\ [][NextRender]_vars

(***************************************************************************)
(* Errors of the pest front-end and of the VM.  An error is its variant    *)
(* (ParsingError with positives and negatives, or CustomError with a       *)
(* message) and its location (Pos(pos) or Span((start, end))).             *)
(***************************************************************************)
\* most errors one stage reports in one call
MaxErrors == 2
\* longest input text, in characters, handed to parse_input
MaxInput == 2

None == [some |-> FALSE]
Some(x) == [some |-> TRUE, v |-> x]

Pos(p) == [kind |-> "Pos", start |-> p, end |-> p]
Span(s, e) == [kind |-> "Span", start |-> s, end |-> e]

ParsingError(ps, ns) ==
  [kind |-> "ParsingError", positives |-> ps, negatives |-> ns, message |-> <<>>]
CustomError(m) ==
  [kind |-> "CustomError", positives |-> <<>>, negatives |-> <<>>, message |-> m]

\* Error::parsing_error_message over the renamed rules: ps and ns are the
\* display names of the positives and of the negatives
ParsingErrorMessage(ps, ns) ==
  LET names(rs) == Concat(Join([k \in 1..Len(rs) |-> <<rs[k]>>], <<", ">>))
  IN  CASE ps = <<>> /\ ns = <<>> -> <<"unknown parsing error">>
        [] ps # <<>> /\ ns = <<>> -> <<"expected ">> \o names(ps)
        [] ps = <<>> /\ ns # <<>> -> <<"unexpected ">> \o names(ns)
        [] OTHER -> <<"unexpected ">> \o names(ns) \o <<"; expected ">> \o names(ps)

\* pest_meta::parser::rename_meta_rule: the display name of a meta rule
rename_meta_rule(r) == <<"the token ", r>>

\* faulty variant: the error handed on as the parser reported it
renamed_rules_dropped(error) == error

\* .map_err(|error| error.renamed_rules(rename_meta_rule)): a ParsingError
\* becomes a CustomError that carries the rendered message
renamed_rules(error) ==
  IF error.variant.kind = "ParsingError"
  THEN [error EXCEPT !.variant =
          CustomError(ParsingErrorMessage(
            [k \in 1..Len(error.variant.positives) |->
               rename_meta_rule(error.variant.positives[k])],
            [k \in 1..Len(error.variant.negatives) |->
               rename_meta_rule(error.variant.negatives[k])]))]
  ELSE error

(***************************************************************************)
(* convert_error: a HashMap with the keys from, to and message, or a panic *)
(* in the unreachable arm of the match on the variant.                     *)
(***************************************************************************)
Panic == [kind |-> "panic"]

convert_error(error, grammar) ==
  IF error.variant.kind # "CustomError" THEN Panic
  ELSE LET from == line_col(error.location.start, grammar)
           to == line_col(error.location.end, grammar)
       IN  IF from = "panic" \/ to = "panic" THEN Panic
           ELSE [kind |-> "map",
                 map |-> [from |-> from, to |-> to,
                          message |-> error.variant.message]]

\* errors.into_iter().map(|e| convert_error(e, grammar)).collect(): a panic
\* of one conversion ends the call
ConvertAll(errors, grammar) ==
  LET cs == [k \in 1..Len(errors) |-> convert_error(errors[k], grammar)]
  IN  IF \E k \in 1..Len(cs) : cs[k].kind = "panic"
      THEN [kind |-> "abort"]
      ELSE [kind |-> "returned", value |-> [k \in 1..Len(cs) |-> cs[k].map]]

(***************************************************************************)
(* compile_grammar.  A grammar is its source text and what the front-end   *)
(* of pest_meta answers for it: parse ("Ok" or the error), validate (the   *)
(* errors of validate_pairs, none when it passes), consume (the errors of  *)
(* consume_rules, none when it passes) and the ast of a grammar that       *)
(* passes.  The outcome of a call: what it returns (or that it aborted),   *)
(* the VM slot after it and the stages it invoked, in order.               *)
(***************************************************************************)
Outcome(ret, vm, stages) == [ret |-> ret, VM |-> vm, stages |-> stages]

\* faulty variant: the slot is written once and kept
InstallOnce(ast, vm) == IF vm.some THEN vm ELSE Some([rules |-> ast])

\* VM = Some(Vm::new(optimizer::optimize(ast.clone())))
Install(ast, vm) == Some([rules |-> ast])

\* unsafe { VM = ... }; vec![]
Stage4(grammar, vm, stages) ==
  Outcome([kind |-> "returned", value |-> <<>>],
          Install(grammar.front.ast, vm), Append(stages, "optimize"))

\* faulty variant: the slot is emptied when consume_rules fails
Stage3Clears(grammar, vm, stages) ==
  IF grammar.front.consume # <<>>
  THEN Outcome(ConvertAll(grammar.front.consume, grammar.text), None,
               Append(stages, "consume_rules"))
  ELSE Stage4(grammar, vm, Append(stages, "consume_rules"))

\* let ast = match parser::consume_rules(pairs) { ... }
Stage3(grammar, vm, stages) ==
  IF grammar.front.consume # <<>>
  THEN Outcome(ConvertAll(grammar.front.consume, grammar.text), vm,
               Append(stages, "consume_rules"))
  ELSE Stage4(grammar, vm, Append(stages, "consume_rules"))

\* faulty variant: the grammar is installed although validation failed
Stage2Installs(grammar, vm, stages) ==
  IF grammar.front.validate # <<>>
  THEN Outcome(ConvertAll(grammar.front.validate, grammar.text),
               Install(grammar.front.ast, vm), Append(stages, "validate"))
  ELSE Stage3(grammar, vm, Append(stages, "validate"))

\* faulty variant: only the first validation error is returned
Stage2FirstOnly(grammar, vm, stages) ==
  IF grammar.front.validate # <<>>
  THEN Outcome(ConvertAll(<<grammar.front.validate[1]>>, grammar.text), vm,
               Append(stages, "validate"))
  ELSE Stage3(grammar, vm, Append(stages, "validate"))

\* if let Err(errors) = validator::validate_pairs(pairs.clone()) { return ... }
Stage2(grammar, vm, stages) ==
  IF grammar.front.validate # <<>>
  THEN Outcome(ConvertAll(grammar.front.validate, grammar.text), vm,
               Append(stages, "validate"))
  ELSE Stage3(grammar, vm, Append(stages, "validate"))

\* let result = parser::parse(..).map_err(..); let pairs = match result { ... }
Stage1(grammar, vm, stages) ==
  IF grammar.front.parse.ok
  THEN Stage2(grammar, vm, Append(stages, "parse"))
  ELSE Outcome(ConvertAll(<<renamed_rules(grammar.front.parse.error)>>,
                          grammar.text),
               vm, Append(stages, "parse"))

compile_grammar(grammar, vm) == Stage1(grammar, vm, <<>>)

(***************************************************************************)
(* parse_input and the serializer.  The grammars that pass all stages are  *)
(*     item = { "c" }    pair = { item ~ item }                            *)
(* for a character c; the ast is the record of c.                          *)
(***************************************************************************)
Asts == {[item |-> "a"], [item |-> "1"]}
RuleNames == {"item", "pair"}
RunChars == {"a", "1"}

\* the pair of rule `item` over the character at index i
ItemPair(input, i) ==
  [rule |-> "item", tag |-> "None", text |-> <<input[i]>>, children |-> <<>>]

\* Position::line_col of pest, which fills error.line_col: the scan of
\* line_col, 1-based
PestLineCol(pos, input) ==
  LET f == LcRun(LcEnter(pos, input)) IN <<f.line, f.col>>

\* Error::new_from_pos of pest: the error of a failed parse at byte offset pos
VmError(ps, pos, input) ==
  [variant |-> ParsingError(ps, <<>>), location |-> Pos(pos),
   line_col |-> [kind |-> "Pos", at |-> PestLineCol(pos, input)]]

\* vm.parse(rule, input): Ok(pairs) or Err(error); the failure is reported
\* for the rule that failed at the furthest position
VmParse(vm, rule, input) ==
  LET item(i) == i <= Len(input) /\ input[i] = vm.rules.item
  IN  IF rule = "item"
      THEN IF item(1) THEN [ok |-> TRUE, pairs |-> <<ItemPair(input, 1)>>]
           ELSE [ok |-> FALSE, error |-> VmError(<<"item">>, 0, input)]
      ELSE IF ~item(1)
           THEN [ok |-> FALSE, error |-> VmError(<<"pair">>, 0, input)]
           ELSE IF ~item(2)
           THEN [ok |-> FALSE, error |-> VmError(<<"item">>, 1, input)]
           ELSE [ok |-> TRUE,
                 pairs |-> <<[rule |-> "pair", tag |-> "None",
                              text |-> SubSeq(input, 1, 2),
                              children |-> <<ItemPair(input, 1),
                                             ItemPair(input, 2)>>]>>]

\* r.to_string() of a rule of the compiled grammar
RuleToString(r) == <<r>>

\* Display of a pest error: where it is, then the message of its variant
ErrorToString(error) ==
  <<"-->", error.line_col.at[1], ":", error.line_col.at[2], "=">>
    \o (IF error.variant.kind = "CustomError" THEN error.variant.message
        ELSE ParsingErrorMessage(
               [k \in 1..Len(error.variant.positives) |->
                  RuleToString(error.variant.positives[k])],
               [k \in 1..Len(error.variant.negatives) |->
                  RuleToString(error.variant.negatives[k])]))

\* convert_error_to_serializable
convert_error_to_serializable(error) ==
  [message |-> ErrorToString(error),
   variant |-> IF error.variant.kind = "ParsingError"
               THEN [ParsingError |-> [positives |-> error.variant.positives,
                                       negatives |-> error.variant.negatives]]
               ELSE [CustomError |-> [message |-> error.variant.message]],
   location |-> error.location,
   line_col |-> error.line_col]

\* format_error_json: the pretty-printed JSON object of the record
format_error_json(error) ==
  [shape |-> "json", json |-> convert_error_to_serializable(error)]

\* parse_input(rule, input) with the slot holding vm: the returned string
\* (the rendered pairs or the JSON of the error), or the abort of expect_throw
parse_input(vm, rule, input) ==
  IF ~vm.some THEN [kind |-> "abort"]
  ELSE LET r == VmParse(vm.v, rule, input)
       IN  IF r.ok
           THEN [kind |-> "returned",
                 value |-> [shape |-> "tree",
                            text |-> Join([k \in 1..Len(r.pairs) |->
                                             format_pair(r.pairs[k], 0, TRUE)],
                                          "LF")]]
           ELSE [kind |-> "returned", value |-> format_error_json(r.error)]

(***************************************************************************)
(* The session: compile and run calls in any order, one at a time.         *)
(* VM is the static slot.  last is the record of the call whose result is  *)
(* being handed to the host: its arguments, what it returned and, for a    *)
(* compile, the stages it invoked.                                         *)
(* latest is history: the grammar of the last compile that passed all      *)
(* stages, the asts that passed before it, and whether a compile failed.   *)
(***************************************************************************)
GrammarTexts == {<<"a", "LF", "a">>, <<"CR", "LF", "U2">>}

\* the locations the front-end reports in a text: a position at its start,
\* one at its end, the span of all of it and the span of its last character
Locations(text) ==
  LET n == ByteLen(text)
      m == ByteLen(SubSeq(text, 1, Len(text) - 1))
  IN  {Pos(0), Pos(n), Span(0, n), Span(m, n)}

\* the errors of parser::parse: expectation sets or a custom message
ParseErrors(text) ==
  {[variant |-> v, location |-> l] :
     v \in {ParsingError(<<"opening_brace", "identifier">>, <<>>),
            ParsingError(<<>>, <<"identifier">>),
            CustomError(<<"custom">>)},
     l \in Locations(text)}

\* the errors of validate_pairs and of consume_rules: custom messages
StageErrors(text) ==
  {[variant |-> CustomError(<<"problem at ", l.kind, l.start>>), location |-> l] :
     l \in Locations(text)}

StageErrorLists(text) ==
  UNION {[1..k -> StageErrors(text)] : k \in 1..MaxErrors}

Front(parse, validate, consume, ast) ==
  [parse |-> parse, validate |-> validate, consume |-> consume, ast |-> ast]

Grammars ==
  UNION {
    {[text |-> t, front |-> Front([ok |-> FALSE, error |-> e], <<>>, <<>>, a)] :
       e \in ParseErrors(t), a \in {[item |-> "a"]}}
    \cup
    {[text |-> t, front |-> Front([ok |-> TRUE], es, cs, a)] :
       es \in StageErrorLists(t),
       cs \in {<<>>, <<[variant |-> CustomError(<<"later">>),
                        location |-> Pos(0)]>>},
       a \in {[item |-> "a"]}}
    \cup
    {[text |-> t, front |-> Front([ok |-> TRUE], <<>>, cs, a)] :
       cs \in StageErrorLists(t), a \in {[item |-> "a"]}}
    \cup
    {[text |-> t, front |-> Front([ok |-> TRUE], <<>>, <<>>, a)] : a \in Asts}
    : t \in GrammarTexts}

RunInputs == TextsUpTo(RunChars, MaxInput)

PassesAllStages(grammar) ==
  grammar.front.parse.ok /\ grammar.front.validate = <<>>
    /\ grammar.front.consume = <<>>

Init ==
  /\ VM = None
  /\ latest = [some |-> FALSE, earlier |-> {}, failed |-> FALSE]
  /\ last = [op |-> "none"]
  /\ lc = NoFrame
  /\ rn = NoFrame

NoCall == [op |-> "none"]

\* compile_grammar_wasm(grammar)
Compile ==
  \E grammar \in Grammars :
    LET out == compile_grammar(grammar, VM) IN
      /\ last = NoCall
      /\ VM' = out.VM
      /\ last' = [op |-> "compile", grammar |-> grammar, ret |-> out.ret,
                  stages |-> out.stages]
      /\ latest' =
           IF PassesAllStages(grammar)
           THEN [some |-> TRUE, v |-> grammar,
                 earlier |-> IF latest.some
                             THEN latest.earlier \cup {latest.v.front.ast}
                             ELSE {},
                 failed |-> latest.failed]
           ELSE [latest EXCEPT !.failed = TRUE]
      /\ UNCHANGED <<lc, rn>>

\* parse_input_wasm(rule, input)
Run ==
  \E rule \in RuleNames : \E input \in RunInputs :
    /\ last = NoCall
    /\ last' = [op |-> "run", rule |-> rule, input |-> input,
                ret |-> parse_input(VM, rule, input)]
    /\ UNCHANGED <<VM, latest, lc, rn>>

\* the exported function returns to the host (or the abort reaches it)
Return ==
  /\ last # NoCall
  /\ last' = NoCall
  /\ UNCHANGED <<VM, latest, lc, rn>>

Next == Compile \/ Run \/ Return

Spec == Init /\ [][Next]_vars

(***************************************************************************)
(* Properties of the session (Spec).                                       *)
(***************************************************************************)
Compiled == last.op = "compile"
Ran == last.op = "run"

\* the errors the failing stage of a grammar reports, and the stages invoked
\* up to and including it
Reported(grammar) ==
  IF ~grammar.front.parse.ok THEN <<grammar.front.parse.error>>
  ELSE IF grammar.front.validate # <<>> THEN grammar.front.validate
  ELSE grammar.front.consume

StagesTo(grammar) ==
  IF ~grammar.front.parse.ok THEN <<"parse">>
  ELSE IF grammar.front.validate # <<>> THEN <<"parse", "validate">>
  ELSE IF grammar.front.consume # <<>>
       THEN <<"parse", "validate", "consume_rules">>
  ELSE <<"parse", "validate", "consume_rules", "optimize">>

\* the executable form of a grammar that passes all stages
ExecOf(grammar) == Some([rules |-> grammar.front.ast])

\* C1: a compile call that fails at one of the stages 1-3 leaves the slot as
\* it was, and every run gives after it what it gave before it.
C1_FailedCompileKeepsSlot ==
  [][(last'.op = "compile" /\ ~PassesAllStages(last'.grammar))
       => /\ VM' = VM
          /\ \A rule \in RuleNames : \A input \in RunInputs :
               parse_input(VM', rule, input) = parse_input(VM, rule, input)]_vars

\* a compile failed at validation while a grammar was installed
C1_Witness ==
  /\ Compiled /\ last.stages = <<"parse", "validate">>
  /\ last.ret.kind = "returned" /\ Len(last.ret.value) = 2
  /\ VM.some /\ latest.some /\ VM = ExecOf(latest.v)

\* C2: a compile call that passes all stages returns no diagnostics and
\* leaves in the slot the executable form of its grammar; every run returns
\* what the grammar of the latest such compile gives for its rule and input.
C2_RunsUseLatestGrammar ==
  /\ (Compiled /\ PassesAllStages(last.grammar))
       => /\ last.ret = [kind |-> "returned", value |-> <<>>]
          /\ VM = ExecOf(last.grammar)
          /\ latest.v = last.grammar
  /\ (Ran /\ latest.some)
       => last.ret = parse_input(ExecOf(latest.v), last.rule, last.input)

\* a run returned a tree of the latest grammar where an earlier grammar gives
\* an error
C2_Witness ==
  /\ Ran /\ latest.some /\ last.ret.kind = "returned"
  /\ last.ret.value.shape = "tree"
  /\ \E ast \in latest.earlier :
       /\ ast # latest.v.front.ast
       /\ parse_input(Some([rules |-> ast]), last.rule, last.input).value.shape
            = "json"

C4_ShortCircuit ==
  (Compiled /\ ~PassesAllStages(last.grammar)) =>
    LET errors == Reported(last.grammar) IN
      /\ last.stages = StagesTo(last.grammar)
      /\ last.ret.kind = "returned"
      /\ Len(last.ret.value) = Len(errors)
      /\ ~last.grammar.front.parse.ok => Len(last.ret.value) = 1
      /\ last.grammar.front.parse.ok =>
           \A k \in 1..Len(errors) :
             /\ last.ret.value[k].message = errors[k].variant.message
             /\ last.ret.value[k].from
                  = line_col(errors[k].location.start, last.grammar.text)
             /\ last.ret.value[k].to
                  = line_col(errors[k].location.end, last.grammar.text)

\* validation reported two different errors for a grammar consume_rules
\* rejects as well: the two are returned, in order
C4_Witness ==
  /\ Compiled /\ last.grammar.front.parse.ok
  /\ Len(last.grammar.front.validate) = 2
  /\ last.grammar.front.validate[1] # last.grammar.front.validate[2]
  /\ last.grammar.front.consume # <<>>
  /\ Len(last.ret.value) = 2
  /\ last.ret.value[1].from # last.ret.value[2].from
  /\ last.stages = <<"parse", "validate">>

\* C5: no compile aborts: it returns, for every error the failing stage
\* reports, a record with exactly the keys from, to and message, whatever the
\* variant and the location of the error.
C5_ErrorsBecomeDiagnostics ==
  Compiled =>
    /\ last.ret.kind = "returned"
    /\ Len(last.ret.value)
         = IF PassesAllStages(last.grammar) THEN 0
           ELSE Len(Reported(last.grammar))
    /\ \A k \in 1..Len(last.ret.value) :
         DOMAIN last.ret.value[k] = {"from", "to", "message"}

\* the parser reported expectation sets over a span, and compile returned the
\* diagnostic with the rendered message
C5_Witness ==
  /\ Compiled /\ ~last.grammar.front.parse.ok
  /\ last.grammar.front.parse.error.variant.kind = "ParsingError"
  /\ last.grammar.front.parse.error.variant.positives # <<>>
  /\ last.grammar.front.parse.error.location.kind = "Span"
  /\ last.ret.kind = "returned"
  /\ last.ret.value[1].message[1] = "expected "
  /\ last.ret.value[1].from # last.ret.value[1].to

\* C8: the diagnostic of a run that fails at byte offset 0 of its input gives
\* line 0 and column 0 as the resolved location, the coordinates line_col
\* gives for that offset.
C8_RunErrorAtOrigin ==
  (Ran /\ last.ret.kind = "returned" /\ last.ret.value.shape = "json"
     /\ last.ret.value.json.location = Pos(0))
    => /\ last.ret.value.json.line_col.at = <<0, 0>>
       /\ <<"(", last.ret.value.json.line_col.at[1], ", ",
            last.ret.value.json.line_col.at[2], ")">>
            = line_col(0, last.input)

(***************************************************************************)
(* Properties of line_col (SpecLineCol).                                   *)
(***************************************************************************)
\* the call was handed a byte offset on a character boundary of its input
LcValid == lc.pc # "idle" /\ lc.arg <= ByteLen(lc.input)
             /\ is_char_boundary(lc.input, lc.arg)

LcDone == LcValid /\ lc.pc = "done"

\* the 0-based line and column of the string a finished call returns
RetLine == lc.ret[2]
RetCol == lc.ret[4]

\* the 0-based line line_col resolves for byte offset pos of the same input
LineAt(pos) == line_col(pos, lc.input)[2]

\* line feeds of a text, and its '\r' with no '\n' right behind them
NumLf(s) == Cardinality({k \in 1..Len(s) : s[k] = "LF"})
NumLoneCr(s) ==
  Cardinality({k \in 1..Len(s) :
                 s[k] = "CR" /\ ~(k < Len(s) /\ s[k + 1] = "LF")})

EndsWithCrLf(s) ==
  Len(s) >= 2 /\ s[Len(s) - 1] = "CR" /\ s[Len(s)] = "LF"

\* C6: just past a '\r' that has no '\n' behind it in the scanned prefix, the
\* resolved line is one more than the line resolved just before the '\r' and
\* the resolved column is 0.
C6_LoneCrBreaksLine ==
  (LcDone /\ lc.slice # <<>> /\ lc.slice[Len(lc.slice)] = "CR")
    => (RetLine = LineAt(lc.arg - 1) + 1 /\ RetCol = 0)

\* C7: just past a "\r\n" pair the resolved line is exactly one more than the
\* line resolved at the offset of its '\r' and the column is 0; at no offset
\* is a pair counted as two line breaks: the resolved line is at least the
\* number of '\n' of the prefix and at most that number plus the number of
\* '\r' of the prefix that have no '\n' behind them.
C7_CrLfOneBreak ==
  LcDone =>
    /\ EndsWithCrLf(lc.slice)
          => (RetLine = LineAt(lc.arg - 2) + 1 /\ RetCol = 0)
    /\ NumLf(lc.slice) <= RetLine
    /\ RetLine <= NumLf(lc.slice) + NumLoneCr(lc.slice)

\* a call returned just past a pair that follows an earlier line break, and
\* the offset between the '\r' and the '\n' of that pair resolves as well
C7_Witness ==
  /\ LcDone /\ EndsWithCrLf(lc.slice) /\ Len(lc.slice) >= 3
  /\ lc.slice[1] = "LF" /\ RetLine = 2 /\ RetCol = 0
  /\ LineAt(lc.arg - 1) = 1

\* C10: for an offset on a character boundary of the source, the counter pos
\* always equals the number of unread bytes of the prefix (so it never goes
\* below 0 and the iterator is not exhausted while it is not 0), the
\* 'pos == 1' branch is never taken, the unreachable arm is never reached,
\* and the call returns with the counter at exactly 0.
C10_CounterIsUnreadBytes ==
  (LcValid /\ lc.pc # "call") =>
    /\ lc.pc \in {"loop", "done"}
    /\ lc.idx <= Len(lc.slice)
    /\ lc.pos = ByteLen(lc.slice) - ByteLen(SubSeq(lc.slice, 1, lc.idx))
    /\ lc.pos >= 0 /\ ~lc.wrapped
    /\ ~lc.pos1
    /\ lc.pc = "done" => (lc.pos = 0 /\ lc.idx = Len(lc.slice))

\* a call returned after reading a pair and a two-byte character
C10_Witness ==
  /\ LcDone /\ lc.pos = 0 /\ lc.arg >= 4
  /\ \E k \in 1..(Len(lc.slice) - 1) :
       lc.slice[k] = "CR" /\ lc.slice[k + 1] = "LF"
  /\ \E k \in 1..Len(lc.slice) : lc.slice[k] = "U2"

(***************************************************************************)
(* Properties of the tree renderer (SpecRender).                           *)
(***************************************************************************)
\* The child-count rule, line by line: a line is its nesting level, whether
\* it starts with the indent and the "- " marker, and the rest of it.
RECURSIVE RuleLines(_, _, _)
RuleLines(node, level, marked) ==
  LET k == Len(node.children)
      name == PairTag(node) \o <<node.rule>>
      line(body) == [level |-> level, marked |-> marked, body |-> body]
  IN  IF k = 0 THEN <<line(name \o <<": ">> \o DebugStr(node.text))>>
      ELSE IF k = 1 THEN
        LET inline == RuleLines(node.children[1], level, FALSE)
        IN  <<line(name \o <<" > ">> \o inline[1].body)>> \o Tail(inline)
      ELSE <<line(name)>>
             \o Concat([i \in 1..k |-> RuleLines(node.children[i], level + 1, TRUE)])

\* two spaces per level and the marker, on the marked lines only
LineText(l) ==
  IF l.marked THEN Repeat("  ", l.level) \o <<"- ">> \o l.body ELSE l.body

RuleText(nodes) ==
  LET ls == Concat([i \in 1..Len(nodes) |-> RuleLines(nodes[i], 0, TRUE)])
  IN  Join([i \in 1..Len(ls) |-> LineText(ls[i])], "LF")

\* C9: the rendered text of every sequence of top-level nodes is the text the
\* child-count rule gives: a node without children is its name, a colon and
\* its escaped text; a node with one child is its name, " > " and the child
\* on the same line at the same level with neither indent nor marker; a node
\* with more children is its name and then each child, in order, on a line
\* of its own one level deeper with indent and marker; the top-level nodes
\* are at level 0 with indent and marker and joined by line breaks.
C9_ChildCountRule ==
  /\ rn.pc \in {"map", "done"} =>
       \A i \in 1..Len(rn.lines) :
         rn.lines[i] = RuleText(<<rn.pairs[i]>>)
  /\ rn.pc = "done" => rn.out = RuleText(rn.pairs)

\* two top-level nodes rendered, the first a chain of one child over a node
\* with two children, one of them tagged and with text to escape
C9_Witness ==
  /\ rn.pc = "done" /\ Len(rn.pairs) = 2
  /\ Len(rn.pairs[1].children) = 1
  /\ Len(rn.pairs[1].children[1].children) = 2
  /\ rn.out = <<"- ", "r", " > ", "r", "LF",
                "  ", "- ", "a", ": ", "\"", "x", "\"", "LF",
                "  ", "- ", "(#", "t", ") ", "b", ": ",
                      "\"", "\\", "n", "\\", "\"", "\"", "LF",
                "- ", "a", ": ", "\"", "x", "\"">>

=============================================================================
